---- MODULE Spec2Model ----
\* Exam simulator: the App component (upload -> generation -> quiz -> results,
\* history in memory and in localStorage), the FileUpload form and the
\* QuizInterface session, as one state machine.  Arrays are sequences; a
\* 0-based JavaScript index i is position i+1 of the sequence.  A nullable
\* value is a sequence of length 0 (null) or 1.
\* Spec and SpecFull run the application; SpecScore applies handleQuizComplete
\* to drawn inputs; SpecLoad runs startup, the saving of settings and page
\* reloads over drawn localStorage contents; SpecGen runs one generation
\* through generateQuizFromContent over drawn files, settings, documents and
\* provider replies.
EXTENDS Integers, Sequences, FiniteSets, TLC

\* ------------------------------------------------------------------ bounds
\* Number of clicks on "Generate Quiz" in one behaviour.
MaxSubmits == 2
\* Number of history deletions in one behaviour.
MaxDeletes == 1
\* Longest answer list / question list drawn for the scoring function.
MaxScoreLen == 3

\* ------------------------------------------------------- program constants
HistoryCap == 20
MaxFileSize == 5 * 1024 * 1024
Unanswered == 0 - 1

Null == << >>

\* --------------------------------------------------------------- utilities
Min(a, b) == IF a < b THEN a ELSE b

\* Array.prototype.slice(0, n)
Slice(s, n) == SubSeq(s, 1, Min(n, Len(s)))

RemoveAt(s, i) == SubSeq(s, 1, i - 1) \o SubSeq(s, i + 1, Len(s))

\* new Array(n).fill(-1)
Fill(n) == [i \in 1..n |-> Unanswered]

\* ------------------------------------------------ provider responses (data)
Opt4 == << "A", "B", "C", "D" >>
Opt3 == << "A", "B", "C" >>

Rec(t, o, c) ==
  [questionText |-> t, options |-> o, correctAnswerIndex |-> c, explanation |-> t]

\* Parsed GeneratedQuizResponse.questions arrays the provider may return: the
\* empty list, well-formed lists, and lists breaking the "4 options, index in
\* 0..3" shape (the schema constrains neither).
RespEmpty == << >>
RespOne   == << Rec("q1", Opt4, 1) >>
RespTwo   == << Rec("q1", Opt4, 1), Rec("q2", Opt4, 2) >>
RespBad   == << Rec("q1", Opt3, 0), Rec("q2", Opt4, Unanswered) >>

Responses == { RespEmpty, RespOne, RespTwo, RespBad }

\* a mapping that numbers the questions from 1
MapQuestionsOneBased(resp) ==
  [i \in 1..Len(resp) |->
     [id |-> i,
      text |-> resp[i].questionText,
      options |-> resp[i].options,
      correctAnswerIndex |-> resp[i].correctAnswerIndex,
      explanation |-> resp[i].explanation]]

\* response.questions.map((q, idx) => ({id: idx, text: ..., ...}))
MapQuestions(resp) ==
  [i \in 1..Len(resp) |->
     [id |-> i - 1,
      text |-> resp[i].questionText,
      options |-> resp[i].options,
      correctAnswerIndex |-> resp[i].correctAnswerIndex,
      explanation |-> resp[i].explanation]]

\* ------------------------------------------------------------ upload files
PdfFile == [name |-> "notes.pdf", type |-> "application/pdf", size |-> MaxFileSize]
BigFile == [name |-> "big.pdf", type |-> "application/pdf", size |-> MaxFileSize + 1]
ExeFile == [name |-> "a.exe", type |-> "application/x-msdownload", size |-> 1024]

FileInputs == { PdfFile, BigFile, ExeFile }

validTypes == { "application/pdf", "text/plain", "image/jpeg", "image/png", "image/webp" }

\* a validation without the size limit
validateErrorNoSize(f) ==
  IF f.type \notin validTypes
  THEN << "Unsupported file type. Please upload PDF, TXT, or Image." >>
  ELSE Null

\* validateFile: the error message it sets, or Null when the file is accepted
validateError(f) ==
  IF f.size > MaxFileSize THEN << "File size too large. Max 5MB." >>
  ELSE IF f.type \notin validTypes
       THEN << "Unsupported file type. Please upload PDF, TXT, or Image." >>
       ELSE Null

validateFile(f) == validateError(f) = Null

\* -------------------------------------------------------- persisted history
Entry(i, name, qs) == [id |-> i, fileName |-> name, questions |-> qs]

\* A full history as an earlier run of the program leaves it in localStorage:
\* HistoryCap entries, newest (largest id) first.
FullHistory ==
  [i \in 1..HistoryCap |-> Entry(HistoryCap + 1 - i, "notes.pdf", MapQuestions(RespOne))]


\* ---------------------------------------------------------------- JSON texts
\* A text is modelled by its syntax tree; an object is a sequence of members
\* in the order they are written.  NotJson(raw) is a text JSON.parse rejects.
JStr(str) == [kind |-> "str", str |-> str]
JNum(num) == [kind |-> "num", num |-> num]
JNull == [kind |-> "null"]
JArr(items) == [kind |-> "arr", items |-> items]
JObj(members) == [kind |-> "obj", members |-> members]
NotJson(raw) == [kind |-> "garbage", raw |-> raw]

Member(key, val) == [key |-> key, val |-> val]

\* a later member with the same key wins
LastIndex(members, key) ==
  CHOOSE i \in DOMAIN members :
    /\ members[i].key = key
    /\ \A j \in DOMAIN members : members[j].key = key => j <= i

\* The value JSON.parse builds: a string, a number, an array (sequence) or an
\* object (function from its keys); null is Null.
RECURSIVE JSONvalue(_)
JSONvalue(text) ==
  CASE text.kind = "str" -> text.str
    [] text.kind = "num" -> text.num
    [] text.kind = "arr" ->
         [i \in DOMAIN text.items |-> JSONvalue(text.items[i])]
    [] text.kind = "obj" ->
         [key \in { text.members[i].key : i \in DOMAIN text.members } |->
            JSONvalue(text.members[LastIndex(text.members, key)].val)]
    [] OTHER -> Null

\* JSON.parse: throws on a text that is not JSON, else the value and its type
JSONparse(text) ==
  [throws |-> text.kind = "garbage",
   type |-> text.kind,
   val |-> IF text.kind = "garbage" THEN Null ELSE JSONvalue(text)]

\* the own keys of an object, in the order JSON.stringify writes them
KeysIn(obj, order) == SelectSeq(order, LAMBDA key : key \in DOMAIN obj)

\* JSON.stringify of an object whose properties are strings
StringifyStrings(obj, order) ==
  LET keys == KeysIn(obj, order)
  IN JObj([i \in DOMAIN keys |-> Member(keys[i], JStr(obj[keys[i]]))])

\* JSON.stringify(newSettings): a property that is absent (undefined) is not
\* written.
JSONstringify(settings) ==
  LET keys == KeysIn(settings, << "provider", "gemini", "openai" >>)
  IN JObj([i \in DOMAIN keys |->
             Member(keys[i],
                    IF keys[i] = "provider"
                    THEN JStr(settings.provider)
                    ELSE StringifyStrings(settings[keys[i]],
                                          << "baseUrl", "apiKey", "model" >>))])

\* { ...a, ...b } for objects a and b
Spread(a, b) ==
  [key \in DOMAIN a \cup DOMAIN b |-> IF key \in DOMAIN b THEN b[key] ELSE a[key]]

\* The own enumerable properties a spread copies out of a parsed value: those
\* of an object, the indices of an array, none of null or a number.
OwnProperties(parsed) ==
  IF parsed.type = "obj" THEN parsed.val
  ELSE IF parsed.type = "arr"
       THEN [key \in { ToString(i - 1) : i \in DOMAIN parsed.val } |->
               parsed.val[CHOOSE i \in DOMAIN parsed.val : ToString(i - 1) = key]]
       ELSE [key \in {} |-> Null]

\* ------------------------------------------------------------------ settings
DEFAULT_SETTINGS ==
  [provider |-> "gemini",
   gemini |-> [apiKey |-> ""],
   openai |-> [baseUrl |-> "https://api.openai.com/v1",
               apiKey |-> "",
               model |-> "gpt-4o"]]

\* AISettings values the settings form can hand to onSave
AISettingsValues ==
  { [provider |-> p,
     gemini |-> [apiKey |-> g],
     openai |-> [baseUrl |-> b, apiKey |-> k, model |-> m]] :
      p \in { "gemini", "openai" },
      g \in { "", "AIza-user" },
      b \in { "https://api.openai.com/v1", "http://localhost:11434/v1" },
      k \in { "", "sk-user" },
      m \in { "gpt-4o", "llama3" } }

\* Settings objects written by an older version, or partly written: a
\* top-level field or a nested field is missing.
OldShapeSettings ==
  { [provider |-> "openai"],
    [provider |-> "openai", openai |-> [apiKey |-> "sk-user"]],
    [gemini |-> [apiKey |-> "AIza-user"]],
    [provider |-> "gemini", gemini |-> [apiKey |-> "AIza-user"],
     openai |-> [baseUrl |-> "http://localhost:11434/v1", model |-> "llama3"]] }

\* What the key 'exam_simulator_settings' may hold at startup: nothing, a text
\* that is not JSON, JSON of the wrong shape, an old-shape or a full object.
StoredSettingsTexts ==
  { Null, << NotJson("{provider:") >>, << JNull >>, << JArr(<< >>) >>, << JNum(7) >> }
    \cup { << JSONstringify(s) >> : s \in OldShapeSettings }
    \cup { << JSONstringify(DEFAULT_SETTINGS) >> }

\* What the key 'exam_simulator_history' may hold at startup.
StoredHistoryKinds == { "absent", "garbage", "null", "obj", "arr" }

\* ------------------------------------------------------------------- state
VARIABLES
  appState,         \* App: AppState
  questions,        \* App: Question[]
  result,           \* App: QuizResult | null
  isLoading,        \* App: boolean
  activeTab,        \* App: 'create' | 'history'
  history,          \* App: QuizHistoryItem[]
  storedHistory,    \* localStorage 'exam_simulator_history'
  file,             \* FileUpload: File | null
  error,            \* FileUpload: string | null
  readers,          \* FileReader loads started by handleSubmit, not yet done
  inflight,         \* generateQuizFromContent calls awaiting their promise
  currentIndex,     \* QuizInterface
  selectedAnswers,  \* QuizInterface
  showExplanation,  \* QuizInterface
  crashed,          \* a render threw: React has unmounted the tree
  handlerThrew,     \* the last handleNext ended in an uncaught TypeError
  alerts,           \* "Generation Failed" alerts shown so far
  now,              \* Date.now()
  submits,          \* clicks on "Generate Quiz" so far
  deletes,          \* history deletions so far
  sessionN,         \* questions.length when the current session was mounted
  cycles,           \* handleNext calls that took effect in the current session
  completions,      \* onComplete calls that set a result in the current session
  aiSettings,       \* App: AISettings
  storedSettings,   \* localStorage 'exam_simulator_settings': null or a text
  storedHistoryKind,\* what the text under 'exam_simulator_history' is
  historyType,      \* what kind of value the history state holds
  phase,            \* "mounting" before the mount effect, then "loaded"/"saved"
  lastSaved,        \* the argument of the last handleSaveSettings, if any
  svcInput,         \* what one generateQuizFromContent call meets
  svcOutcome        \* null, or how that call settled

vars == << appState, questions, result, isLoading, activeTab, history,
           storedHistory, file, error, readers, inflight, currentIndex,
           selectedAnswers, showExplanation, crashed, handlerThrew, alerts,
           now, submits, deletes, sessionN, cycles, completions, aiSettings,
           storedSettings, storedHistoryKind, historyType, phase, lastSaved,
           svcInput, svcOutcome >>

\* the settings and the stored texts, as the App component holds them
settingsVars == << aiSettings, storedSettings, historyType, phase, lastSaved >>

\* one call of the generation service
serviceVars == << svcInput, svcOutcome >>

\* ---------------------------------------------------------- derived values
\* FileUpload is rendered in the UPLOAD state on the 'create' tab.
UploadMounted(st, tab) == st = "UPLOAD" /\ tab = "create"

\* QuizInterface is rendered in the QUIZ state.
QuizMounted(st) == st = "QUIZ"

\* Button (components/Button): inert while disabled or loading.
ButtonDisabled(disabled, loading) == disabled \/ loading

isLastQuestion == currentIndex = Len(questions) - 1

\* selectedAnswers[currentIndex] !== -1 ; past the end of the array the read
\* gives undefined, which differs from -1.
hasAnsweredCurrent ==
  IF currentIndex < Len(selectedAnswers)
  THEN selectedAnswers[currentIndex + 1] # Unanswered
  ELSE TRUE

\* HistoryList reads history.length and calls history.map: on null the read
\* throws, on an object without them the call throws.
HistoryListThrows(tab, type) == tab = "history" /\ type # "arr"

\* currentQuestion = questions[currentIndex] is undefined, so the render of
\* QuizInterface throws at currentQuestion.text.
RenderThrows(st, qs, idx) == QuizMounted(st) /\ idx >= Len(qs)

\* handleQuizComplete: userAnswers.reduce(...) from 0
RECURSIVE ScoreFrom(_, _, _, _)
ScoreFrom(userAnswers, qs, idx, acc) ==
  IF idx >= Len(userAnswers) THEN acc
  ELSE ScoreFrom(userAnswers, qs, idx + 1,
                 IF userAnswers[idx + 1] = qs[idx + 1].correctAnswerIndex
                 THEN acc + 1 ELSE acc)

Score(userAnswers, qs) == ScoreFrom(userAnswers, qs, 0, 0)

\* questions[idx] is undefined for some idx the reduce visits
ScoreThrows(userAnswers, qs) == Len(userAnswers) > Len(qs)

\* ------------------------------------------------------------------- Init
\* The state after the first render and the mount effect that loads the
\* history from localStorage.
InitUI ==
  /\ appState = "UPLOAD"
  /\ questions = << >>
  /\ result = Null
  /\ isLoading = FALSE
  /\ activeTab = "create"
  /\ file = Null
  /\ error = Null
  /\ readers = << >>
  /\ inflight = << >>
  /\ currentIndex = 0
  /\ selectedAnswers = << >>
  /\ showExplanation = FALSE
  /\ crashed = FALSE
  /\ handlerThrew = FALSE
  /\ alerts = 0
  /\ now = HistoryCap + 1
  /\ submits = 0
  /\ deletes = 0
  /\ sessionN = 0
  /\ cycles = 0
  /\ completions = 0

InitApp(stored) ==
  /\ storedHistory = stored
  /\ history = stored
  /\ InitUI

\* No settings were ever saved: the mount effect leaves DEFAULT_SETTINGS.
InitSettings ==
  /\ aiSettings = DEFAULT_SETTINGS
  /\ storedSettings = Null
  /\ historyType = "arr"
  /\ phase = "loaded"
  /\ lastSaved = Null

\* no service call is looked into
InitService ==
  /\ svcInput = Null
  /\ svcOutcome = Null

InitWith(stored) ==
  /\ InitApp(stored)
  /\ storedHistoryKind = IF stored = << >> THEN "absent" ELSE "arr"
  /\ InitSettings
  /\ InitService

\* first start: nothing persisted yet
Init == InitWith(<< >>)

\* a start with a full history persisted by earlier runs
InitFull == InitWith(FullHistory)

\* ------------------------------------------------- mounting and unmounting
\* A FileReader's onerror calls setError of the FileUpload instance that
\* started it; once that instance is unmounted the call has no effect.
Detach(rs) == [i \in DOMAIN rs |-> [rs[i] EXCEPT !.live = FALSE]]

\* FileUpload keeps its state while it stays rendered and loses it otherwise.
UploadRender(st2, tab2, rs) ==
  IF UploadMounted(st2, tab2) /\ UploadMounted(appState, activeTab)
  THEN /\ UNCHANGED << file, error >>
       /\ readers' = rs
  ELSE /\ file' = Null
       /\ error' = Null
       /\ readers' = Detach(rs)

\* QuizInterface keeps its state while it stays rendered (also when the
\* questions prop changes); a new instance starts from its useState
\* initialisers.  The render that follows throws when questions[currentIndex]
\* is undefined.
QuizRender(st2, qs2) ==
  /\ IF QuizMounted(st2)
     THEN IF QuizMounted(appState)
          THEN UNCHANGED << currentIndex, selectedAnswers, showExplanation,
                            handlerThrew, sessionN, cycles, completions >>
          ELSE /\ currentIndex' = 0
               /\ selectedAnswers' = Fill(Len(qs2))
               /\ showExplanation' = FALSE
               /\ handlerThrew' = FALSE
               /\ sessionN' = Len(qs2)
               /\ cycles' = 0
               /\ completions' = 0
     ELSE /\ currentIndex' = 0
          /\ selectedAnswers' = << >>
          /\ showExplanation' = FALSE
          /\ handlerThrew' = FALSE
          /\ UNCHANGED << sessionN, cycles, completions >>
  /\ crashed' = RenderThrows(st2, qs2, currentIndex')

\* ------------------------------------------------------------- FileUpload
\* handleChange and handleDrop: clear the error, validate, keep the file only
\* when it is valid.
handleChange(f) ==
  /\ ~crashed
  /\ UploadMounted(appState, activeTab)
  /\ error' = validateError(f)
  /\ file' = IF validateFile(f) THEN << f >> ELSE file
  /\ UNCHANGED << appState, questions, result, isLoading, activeTab, history,
                  storedHistory, readers, inflight, currentIndex,
                  selectedAnswers, showExplanation, crashed, handlerThrew, now,
                  submits, deletes, sessionN, cycles, completions, alerts >>
  /\ UNCHANGED << settingsVars, serviceVars, storedHistoryKind >>

\* handleSubmit starts a FileReader; its onload closure holds the file and the
\* onGenerate of this render, hence the history of this render.
handleSubmit ==
  /\ ~crashed
  /\ UploadMounted(appState, activeTab)
  /\ ~ButtonDisabled(file = Null, isLoading)
  /\ submits < MaxSubmits
  /\ readers' = Append(readers, [file |-> file[1], hist |-> history, live |-> TRUE])
  /\ submits' = submits + 1
  /\ UNCHANGED << appState, questions, result, isLoading, activeTab, history,
                  storedHistory, file, error, inflight, currentIndex,
                  selectedAnswers, showExplanation, crashed, handlerThrew, now,
                  deletes, sessionN, cycles, completions, alerts >>
  /\ UNCHANGED << settingsVars, serviceVars, storedHistoryKind >>

\* reader.onerror
ReaderOnerror(i) ==
  /\ i \in DOMAIN readers
  /\ readers' = RemoveAt(readers, i)
  /\ error' = IF readers[i].live /\ ~crashed THEN << "Failed to read file." >> ELSE error
  /\ UNCHANGED << appState, questions, result, isLoading, activeTab, history,
                  storedHistory, file, inflight, currentIndex,
                  selectedAnswers, showExplanation, crashed, handlerThrew, now,
                  submits, deletes, sessionN, cycles, completions, alerts >>
  /\ UNCHANGED << settingsVars, serviceVars, storedHistoryKind >>

\* ------------------------------------------------------ handleGenerateQuiz
\* reader.onload -> onGenerate: handleGenerateQuiz up to its await.
handleGenerateQuiz(i) ==
  /\ i \in DOMAIN readers
  /\ inflight' = Append(inflight, [file |-> readers[i].file, hist |-> readers[i].hist])
  /\ IF crashed
     THEN /\ readers' = RemoveAt(readers, i)
          /\ UNCHANGED << appState, isLoading, file, error, currentIndex,
                          selectedAnswers, showExplanation, crashed,
                          handlerThrew, sessionN, cycles, completions >>
     ELSE /\ isLoading' = TRUE
          /\ appState' = "PROCESSING"
          /\ UploadRender("PROCESSING", activeTab, RemoveAt(readers, i))
          /\ QuizRender("PROCESSING", questions)
  /\ UNCHANGED << questions, result, activeTab, history, storedHistory, now,
                  submits, deletes, alerts >>
  /\ UNCHANGED << settingsVars, serviceVars, storedHistoryKind >>

\* saveToHistory with the history of the render that created the closure
saveToHistory(hist, fileName, qs) ==
  Slice(<< Entry(now, fileName, qs) >> \o hist, HistoryCap)

\* The promise resolves and the mapping succeeds.
GenSucceed(i, resp) ==
  /\ i \in DOMAIN inflight
  /\ LET mappedQuestions == MapQuestions(resp)
         updatedHistory == saveToHistory(inflight[i].hist, inflight[i].file.name,
                                         mappedQuestions)
     IN /\ storedHistory' = updatedHistory
        /\ IF crashed
           THEN UNCHANGED << appState, questions, isLoading, history, file,
                             error, readers, currentIndex, selectedAnswers,
                             showExplanation, crashed, handlerThrew, sessionN,
                             cycles, completions >>
           ELSE /\ questions' = mappedQuestions
                /\ history' = updatedHistory
                /\ appState' = "QUIZ"
                /\ isLoading' = FALSE
                /\ UploadRender("QUIZ", activeTab, readers)
                /\ QuizRender("QUIZ", mappedQuestions)
  /\ inflight' = RemoveAt(inflight, i)
  /\ now' = now + 1
  /\ UNCHANGED << result, activeTab, submits, deletes, alerts >>
  /\ storedHistoryKind' = "arr"
  /\ UNCHANGED << settingsVars, serviceVars >>

\* GenFail whose catch block forgets setAppState(UPLOAD) and drops the
\* question list.
GenFailNoReturn(i) ==
  /\ i \in DOMAIN inflight
  /\ inflight' = RemoveAt(inflight, i)
  /\ alerts' = alerts + 1
  /\ IF crashed
     THEN UNCHANGED << appState, isLoading, file, error, readers, currentIndex,
                       selectedAnswers, showExplanation, crashed, handlerThrew,
                       sessionN, cycles, completions >>
     ELSE /\ isLoading' = FALSE
          /\ UNCHANGED << appState, file, error, readers, currentIndex,
                          selectedAnswers, showExplanation, crashed,
                          handlerThrew, sessionN, cycles, completions >>
  /\ UNCHANGED << questions, result, activeTab, history, storedHistory, now,
                  submits, deletes >>
  /\ UNCHANGED << settingsVars, serviceVars, storedHistoryKind >>

\* The promise rejects, or response.questions.map throws (the parsed response
\* has no questions array): the catch block, then finally.
GenFail(i) ==
  /\ i \in DOMAIN inflight
  /\ inflight' = RemoveAt(inflight, i)
  /\ alerts' = alerts + 1
  /\ IF crashed
     THEN UNCHANGED << appState, isLoading, file, error, readers, currentIndex,
                       selectedAnswers, showExplanation, crashed, handlerThrew,
                       sessionN, cycles, completions >>
     ELSE /\ appState' = "UPLOAD"
          /\ isLoading' = FALSE
          /\ UploadRender("UPLOAD", activeTab, readers)
          /\ QuizRender("UPLOAD", questions)
  /\ UNCHANGED << questions, result, activeTab, history, storedHistory, now,
                  submits, deletes >>
  /\ UNCHANGED << settingsVars, serviceVars, storedHistoryKind >>

\* a retake that hands the stored questions to a session left as it was
handleLoadFromHistoryKeep(k) ==
  /\ ~crashed
  /\ appState = "UPLOAD"
  /\ activeTab = "history"
  /\ k \in DOMAIN history
  /\ questions' = history[k].questions
  /\ appState' = "QUIZ"
  /\ crashed' = RenderThrows("QUIZ", history[k].questions, currentIndex)
  /\ UNCHANGED << currentIndex, selectedAnswers, showExplanation, handlerThrew,
                  sessionN, cycles, completions >>
  /\ UNCHANGED << result, isLoading, activeTab, history, storedHistory, file,
                  error, readers, inflight, now, submits, deletes, alerts >>
  /\ UNCHANGED << settingsVars, serviceVars, storedHistoryKind >>

\* ---------------------------------------------------------------- history
handleLoadFromHistory(k) ==
  /\ ~crashed
  /\ appState = "UPLOAD"
  /\ activeTab = "history"
  /\ k \in DOMAIN history
  /\ questions' = history[k].questions
  /\ appState' = "QUIZ"
  /\ QuizRender("QUIZ", history[k].questions)
  /\ UNCHANGED << result, isLoading, activeTab, history, storedHistory, file,
                  error, readers, inflight, now, submits, deletes, alerts >>
  /\ UNCHANGED << settingsVars, serviceVars, storedHistoryKind >>

handleDeleteHistory(k) ==
  /\ ~crashed
  /\ appState = "UPLOAD"
  /\ activeTab = "history"
  /\ k \in DOMAIN history
  /\ deletes < MaxDeletes
  /\ LET updatedHistory == SelectSeq(history, LAMBDA item : item.id # history[k].id)
     IN /\ history' = updatedHistory
        /\ storedHistory' = updatedHistory
  /\ deletes' = deletes + 1
  /\ UNCHANGED << appState, questions, result, isLoading, activeTab, file,
                  error, readers, inflight, currentIndex, selectedAnswers,
                  showExplanation, crashed, handlerThrew, now, submits,
                  sessionN, cycles, completions, alerts >>
  /\ storedHistoryKind' = "arr"
  /\ UNCHANGED << settingsVars, serviceVars >>

\* the two tab buttons of the UPLOAD view
setActiveTab(t) ==
  /\ ~crashed
  /\ appState = "UPLOAD"
  /\ t # activeTab
  /\ activeTab' = t
  /\ UploadRender("UPLOAD", t, readers)
  /\ crashed' = HistoryListThrows(t, historyType)
  /\ UNCHANGED << appState, questions, result, isLoading, history,
                  storedHistory, inflight, currentIndex, selectedAnswers,
                  showExplanation, handlerThrew, now, submits,
                  deletes, sessionN, cycles, completions, alerts >>
  /\ UNCHANGED << settingsVars, serviceVars, storedHistoryKind >>

\* header logo and the results view's onReset
handleReset ==
  /\ ~crashed
  /\ appState' = "UPLOAD"
  /\ questions' = << >>
  /\ result' = Null
  /\ UploadRender("UPLOAD", activeTab, readers)
  /\ QuizRender("UPLOAD", << >>)
  /\ UNCHANGED << isLoading, activeTab, history, storedHistory, inflight, now,
                  submits, deletes, alerts >>
  /\ UNCHANGED << settingsVars, serviceVars, storedHistoryKind >>

\* ----------------------------------------------------------- QuizInterface
\* handleOptionSelect without its early return: a later selection overwrites
\* the recorded answer.
handleOptionSelectNoGuard(optionIndex) ==
  /\ ~crashed
  /\ QuizMounted(appState)
  /\ optionIndex \in 0..(Len(questions[currentIndex + 1].options) - 1)
  /\ currentIndex < Len(selectedAnswers)
  /\ selectedAnswers' = [selectedAnswers EXCEPT ![currentIndex + 1] = optionIndex]
  /\ showExplanation' = TRUE
  /\ UNCHANGED << appState, questions, result, isLoading, activeTab, history,
                  storedHistory, file, error, readers, inflight, currentIndex,
                  crashed, handlerThrew, now, submits, deletes, sessionN,
                  cycles, completions, alerts >>
  /\ UNCHANGED << settingsVars, serviceVars, storedHistoryKind >>

\* The handler is modelled as callable on an answered question too (there it
\* returns at once), so that its own guard is what keeps the answer.
handleOptionSelect(optionIndex) ==
  /\ ~crashed
  /\ QuizMounted(appState)
  /\ optionIndex \in 0..(Len(questions[currentIndex + 1].options) - 1)
  /\ IF hasAnsweredCurrent
     THEN UNCHANGED << selectedAnswers, showExplanation >>
     ELSE /\ selectedAnswers' = [selectedAnswers EXCEPT ![currentIndex + 1] = optionIndex]
          /\ showExplanation' = TRUE
  /\ UNCHANGED << appState, questions, result, isLoading, activeTab, history,
                  storedHistory, file, error, readers, inflight, currentIndex,
                  crashed, handlerThrew, now, submits, deletes, sessionN,
                  cycles, completions, alerts >>
  /\ UNCHANGED << settingsVars, serviceVars, storedHistoryKind >>

\* App.handleQuizComplete, called from handleNext on the last question
handleQuizComplete(userAnswers) ==
  IF ScoreThrows(userAnswers, questions)
  THEN /\ handlerThrew' = TRUE
       /\ UNCHANGED << appState, result, currentIndex, selectedAnswers,
                       showExplanation, crashed, cycles, completions >>
  ELSE /\ result' = << [score |-> Score(userAnswers, questions),
                        total |-> Len(questions),
                        userAnswers |-> userAnswers,
                        questions |-> questions] >>
       /\ appState' = "RESULTS"
       /\ currentIndex' = 0
       /\ selectedAnswers' = << >>
       /\ showExplanation' = FALSE
       /\ handlerThrew' = FALSE
       /\ crashed' = FALSE
       /\ cycles' = cycles + 1
       /\ completions' = completions + 1

\* a handleNext that leaves the explanation open when it advances
handleNextKeepsReveal ==
  /\ ~crashed
  /\ QuizMounted(appState)
  /\ ~ButtonDisabled(~hasAnsweredCurrent, FALSE)
  /\ IF isLastQuestion
     THEN handleQuizComplete(selectedAnswers)
     ELSE /\ currentIndex' = currentIndex + 1
          /\ cycles' = cycles + 1
          /\ crashed' = RenderThrows(appState, questions, currentIndex + 1)
          /\ UNCHANGED << appState, result, selectedAnswers, handlerThrew,
                          completions, showExplanation >>
  /\ UNCHANGED << questions, isLoading, activeTab, history, storedHistory,
                  file, error, readers, inflight, now, submits, deletes,
                  sessionN, alerts >>
  /\ UNCHANGED << settingsVars, serviceVars, storedHistoryKind >>

handleNext ==
  /\ ~crashed
  /\ QuizMounted(appState)
  /\ ~ButtonDisabled(~hasAnsweredCurrent, FALSE)
  /\ IF isLastQuestion
     THEN handleQuizComplete(selectedAnswers)
     ELSE /\ currentIndex' = currentIndex + 1
          /\ showExplanation' = FALSE
          /\ cycles' = cycles + 1
          /\ crashed' = RenderThrows(appState, questions, currentIndex + 1)
          /\ UNCHANGED << appState, result, selectedAnswers, handlerThrew,
                          completions >>
  /\ UNCHANGED << questions, isLoading, activeTab, history, storedHistory,
                  file, error, readers, inflight, now, submits, deletes,
                  sessionN, alerts >>
  /\ UNCHANGED << settingsVars, serviceVars, storedHistoryKind >>

\* ------------------------------------------------------------------- Next
Next ==
  \/ \E f \in FileInputs : handleChange(f)
  \/ handleSubmit
  \/ \E i \in 1..MaxSubmits : ReaderOnerror(i)
  \/ \E i \in 1..MaxSubmits : handleGenerateQuiz(i)
  \/ \E i \in 1..MaxSubmits : \E resp \in Responses : GenSucceed(i, resp)
  \/ \E i \in 1..MaxSubmits : GenFail(i)
  \/ \E k \in 1..HistoryCap : handleLoadFromHistory(k)
  \/ \E k \in 1..HistoryCap : handleDeleteHistory(k)
  \/ \E t \in { "create", "history" } : setActiveTab(t)
  \/ handleReset
  \/ \E k \in 0..3 : handleOptionSelect(k)
  \/ handleNext

Spec == Init /\ [][Next]_vars

\* ------------------------------------------- the scoring function on its own
CorrectIndices == { Unanswered, 0, 1, 2 }
AnswerValues == { Unanswered, 0, 1, 2 }

SeqsUpTo(S, n) == UNION { [1..k -> S] : k \in 0..n }

\* question lists as the mapping step produces them, any correct index
ScoreQuestionLists ==
  { MapQuestions([i \in DOMAIN cs |-> Rec("q", Opt4, cs[i])]) :
      cs \in SeqsUpTo(CorrectIndices, MaxScoreLen) }

\* handleQuizComplete applied to an answer list and a question list
InitScore ==
  /\ questions \in ScoreQuestionLists
  /\ selectedAnswers \in SeqsUpTo(AnswerValues, MaxScoreLen)
  /\ appState = "QUIZ"
  /\ result = Null
  /\ isLoading = FALSE
  /\ activeTab = "create"
  /\ history = << >>
  /\ storedHistory = << >>
  /\ file = Null
  /\ error = Null
  /\ readers = << >>
  /\ inflight = << >>
  /\ currentIndex = 0
  /\ showExplanation = FALSE
  /\ crashed = FALSE
  /\ handlerThrew = FALSE
  /\ alerts = 0
  /\ now = HistoryCap + 1
  /\ submits = 0
  /\ deletes = 0
  /\ sessionN = Len(questions)
  /\ cycles = 0
  /\ completions = 0
  /\ storedHistoryKind = "absent"
  /\ InitSettings
  /\ InitService

ScoreStep ==
  /\ QuizMounted(appState)
  /\ handleQuizComplete(selectedAnswers)
  /\ UNCHANGED << questions, isLoading, activeTab, history, storedHistory,
                  file, error, readers, inflight, now, submits, deletes,
                  sessionN, alerts >>
  /\ UNCHANGED << settingsVars, serviceVars, storedHistoryKind >>

NextScore == ScoreStep

SpecScore == InitScore /\ [][NextScore]_vars

SpecFull == InitFull /\ [][Next]_vars

\* ------------------------------------- startup, saving settings and reloading
\* JSON.parse(savedHistory): the stored array is kept as its value
HistoryParse(kind, stored) ==
  [throws |-> kind = "garbage",
   type |-> kind,
   val |-> IF kind = "arr" THEN stored ELSE Null]

\* The state of a page load before the mount effect has run: every useState
\* holds its initial value, localStorage holds what earlier runs, or anything
\* else, left there.
InitLoad ==
  /\ InitUI
  /\ InitService
  /\ history = << >>
  /\ historyType = "arr"
  /\ aiSettings = DEFAULT_SETTINGS
  /\ phase = "mounting"
  /\ lastSaved = Null
  /\ storedSettings \in StoredSettingsTexts
  /\ storedHistoryKind \in StoredHistoryKinds
  /\ storedHistory \in IF storedHistoryKind = "arr"
                       THEN { << >>, << Entry(1, "notes.pdf", MapQuestions(RespOne)) >> }
                       ELSE { << >> }

\* the mount effect: load the settings, then the history
MountEffect ==
  /\ phase = "mounting"
  /\ phase' = "loaded"
  /\ IF storedSettings # Null /\ ~JSONparse(storedSettings[1]).throws
     THEN aiSettings' = Spread(DEFAULT_SETTINGS,
                               OwnProperties(JSONparse(storedSettings[1])))
     ELSE UNCHANGED aiSettings
  /\ LET parsed == HistoryParse(storedHistoryKind, storedHistory)
     IN IF storedHistoryKind # "absent" /\ ~parsed.throws
        THEN /\ history' = IF parsed.type = "arr" THEN parsed.val ELSE << >>
             /\ historyType' = parsed.type
        ELSE UNCHANGED << history, historyType >>
  /\ UNCHANGED << appState, questions, result, isLoading, activeTab,
                  storedHistory, file, error, readers, inflight, currentIndex,
                  selectedAnswers, showExplanation, crashed, handlerThrew,
                  alerts, now, submits, deletes, sessionN, cycles, completions,
                  storedSettings, storedHistoryKind, lastSaved, serviceVars >>

\* handleSaveSettings that keeps the new settings in memory only
handleSaveSettingsNoStore(newSettings) ==
  /\ ~crashed
  /\ phase # "mounting"
  /\ aiSettings' = newSettings
  /\ phase' = "saved"
  /\ lastSaved' = << newSettings >>
  /\ UNCHANGED << appState, questions, result, isLoading, activeTab, history,
                  storedHistory, file, error, readers, inflight, currentIndex,
                  selectedAnswers, showExplanation, crashed, handlerThrew,
                  alerts, now, submits, deletes, sessionN, cycles, completions,
                  storedSettings, storedHistoryKind, historyType, serviceVars >>

\* SettingsModal.handleSave -> onSave
handleSaveSettings(newSettings) ==
  /\ ~crashed
  /\ phase # "mounting"
  /\ aiSettings' = newSettings
  /\ storedSettings' = << JSONstringify(newSettings) >>
  /\ phase' = "saved"
  /\ lastSaved' = << newSettings >>
  /\ UNCHANGED << appState, questions, result, isLoading, activeTab, history,
                  storedHistory, file, error, readers, inflight, currentIndex,
                  selectedAnswers, showExplanation, crashed, handlerThrew,
                  alerts, now, submits, deletes, sessionN, cycles, completions,
                  storedHistoryKind, historyType, serviceVars >>

\* The page is loaded again: the component state starts over from the useState
\* initialisers, localStorage stays.  (The other component state is at its
\* initial value in every state of SpecLoad but for the tab and the crash.)
Reload ==
  /\ phase # "mounting"
  /\ phase' = "mounting"
  /\ aiSettings' = DEFAULT_SETTINGS
  /\ history' = << >>
  /\ historyType' = "arr"
  /\ activeTab' = "create"
  /\ crashed' = FALSE
  /\ UNCHANGED << appState, questions, result, isLoading, storedHistory, file,
                  error, readers, inflight, currentIndex, selectedAnswers,
                  showExplanation, handlerThrew, alerts, now, submits, deletes,
                  sessionN, cycles, completions, storedSettings,
                  storedHistoryKind, lastSaved, serviceVars >>

NextLoad ==
  \/ MountEffect
  \/ \E newSettings \in AISettingsValues : handleSaveSettings(newSettings)
  \/ \E t \in { "create", "history" } : phase # "mounting" /\ setActiveTab(t)
  \/ Reload

SpecLoad == InitLoad /\ [][NextLoad]_vars

\* ============================================== the generation service
\* Bound: the longest PDF document drawn, in pages.
MaxPages == 2

\* ------------------------------------------------------------------ base64
\* A base64 text is the sequence of its characters, each given by its value
\* 0..63 in the alphabet, '=' by Pad.  A binary string is the sequence of its
\* character codes.
Pad == 64

\* reader.readAsDataURL(file), then split(',')[1]
RECURSIVE Btoa(_)
Btoa(bytes) ==
  IF Len(bytes) = 0 THEN << >>
  ELSE IF Len(bytes) = 1
       THEN << bytes[1] \div 4, (bytes[1] % 4) * 16, Pad, Pad >>
  ELSE IF Len(bytes) = 2
       THEN << bytes[1] \div 4,
               (bytes[1] % 4) * 16 + bytes[2] \div 16,
               (bytes[2] % 16) * 4,
               Pad >>
  ELSE << bytes[1] \div 4,
          (bytes[1] % 4) * 16 + bytes[2] \div 16,
          (bytes[2] % 16) * 4 + bytes[3] \div 64,
          bytes[3] % 64 >> \o Btoa(SubSeq(bytes, 4, Len(bytes)))

\* atob(base64Data)
RECURSIVE atob(_)
atob(base64Data) ==
  IF Len(base64Data) = 0 THEN << >>
  ELSE LET c == SubSeq(base64Data, 1, 4)
           first == << c[1] * 4 + c[2] \div 16 >>
           second == IF c[3] = Pad THEN << >>
                     ELSE << (c[2] % 16) * 16 + c[3] \div 4 >>
           third == IF c[4] = Pad THEN << >>
                    ELSE << (c[3] % 4) * 64 + c[4] >>
       IN first \o second \o third \o atob(SubSeq(base64Data, 5, Len(base64Data)))

\* ------------------------------------------------------------------ inputs
\* file contents: "Hi", and a content whose length is not a multiple of 3
ContentBytes == { << 72, 105 >>, << 37, 80, 68, 70 >> }

\* one accepted file of every valid type
AcceptedFiles ==
  { [name |-> "notes", type |-> t, size |-> 1024] : t \in validTypes }

Difficulties == { "Easy", "Medium", "Hard" }

\* process.env.API_KEY: undefined, empty, or a key
EnvKeys == { Null, << "" >>, << "AIza-env" >> }

\* A page as pdf.js serves it: getPage / getTextContent throw, or the items
\* join to a text (empty for a scanned page, blank, or real text).
PageOutcomes ==
  { [fails |-> TRUE, text |-> ""] }
    \cup { [fails |-> FALSE, text |-> t] : t \in { "Alpha", "", " " } }

\* What pdf.js makes of the bytes it is given: the loading task rejects, or a
\* document of 0..MaxPages pages.
PdfDocuments ==
  { [loads |-> FALSE, pages |-> << >>] }
    \cup { [loads |-> TRUE, pages |-> ps] : ps \in SeqsUpTo(PageOutcomes, MaxPages) }

NoDocument == [loads |-> FALSE, pages |-> << >>]

RespDup ==
  << [questionText |-> "q1", options |-> Opt4, correctAnswerIndex |-> 1,
      explanation |-> "e1"],
     [questionText |-> "q1", options |-> Opt4, correctAnswerIndex |-> 1,
      explanation |-> "e1"],
     [questionText |-> "q0", options |-> Opt4, correctAnswerIndex |-> 3,
      explanation |-> "e0"] >>

ServiceResponses == Responses \cup { RespDup }

\* the JSON text of a GeneratedQuizResponse
QuizText(resp) ==
  JObj(<< Member("questions",
       JArr([i \in DOMAIN resp |->
          JObj(<< Member("questionText", JStr(resp[i].questionText)),
                  Member("options",
                         JArr([j \in DOMAIN resp[i].options |->
                                 JStr(resp[i].options[j])])),
                  Member("correctAnswerIndex", JNum(resp[i].correctAnswerIndex)),
                  Member("explanation", JStr(resp[i].explanation)) >>)])) >>)

\* text payloads of a successful provider call: none, quiz JSON, JSON without
\* a questions array, something that is not JSON
ContentTexts ==
  { Null, << NotJson("Here is your quiz") >>, << JObj(<< >>) >> }
    \cup { << QuizText(resp) >> : resp \in ServiceResponses }

\* the chat-completion body that carries a text payload (the JSON string
\* holds the payload text)
ChatBody(text) ==
  JObj(<< Member("choices",
       IF text = Null THEN JArr(<< >>)
       ELSE JArr(<< JObj(<< Member("message",
                   JObj(<< Member("content", JStr(text[1])) >>)) >>) >>)) >>)

ErrorBodyWithMessage ==
  JObj(<< Member("error", JObj(<< Member("message", JStr("Invalid API key")) >>)) >>)
ErrorBodyWithoutMessage == JObj(<< >>)
ErrorBodyNotJson == NotJson("Bad Gateway")

\* How the provider answers: the call rejects (network), a non-success HTTP
\* status with some body, or success with some text payload.
Replies ==
  { [status |-> "network", text |-> Null, body |-> JNull] }
    \cup { [status |-> "error", text |-> Null, body |-> b] :
             b \in { ErrorBodyWithMessage, ErrorBodyWithoutMessage, ErrorBodyNotJson } }
    \cup { [status |-> "ok", text |-> t, body |-> ChatBody(t)] : t \in ContentTexts }

\* active settings at the time of a generation: full settings, and settings
\* loaded from an old shape whose openai object lacks fields
ServiceSettings ==
  { [provider |-> p, gemini |-> [apiKey |-> g], openai |-> o] :
      p \in { "gemini", "openai" },
      g \in { "", "AIza-user" },
      o \in { DEFAULT_SETTINGS.openai,
              [baseUrl |-> "http://localhost:11434/v1", apiKey |-> "sk-user",
               model |-> "llama3"],
              [apiKey |-> "sk-user"] } }

\* what one call meets, for a file of the given type
InputsFor(f) ==
  { [mimeType |-> f.type,
     fileBytes |-> b,
     base64Data |-> Btoa(b),
     difficulty |-> d,
     envKey |-> e,
     pdfjs |-> [data |-> b, loads |-> doc.loads, pages |-> doc.pages],
     reply |-> r] :
      b \in ContentBytes, d \in Difficulties, e \in EnvKeys, r \in Replies,
      doc \in IF f.type = "application/pdf" THEN PdfDocuments ELSE { NoDocument } }

\* ----------------------------------------------------------------- helpers
\* obj?.key : the property, or undefined (Null)
Field(obj, key) ==
  IF obj # Null /\ key \in DOMAIN obj[1] THEN << obj[1][key] >> ELSE Null

\* a string that is neither undefined nor empty
Truthy(v) == v # Null /\ v[1] # ""

\* a || b
Or(a, b) == IF Truthy(a) THEN a ELSE b

NoResponse == [throws |-> FALSE, type |-> "none", val |-> Null]

\* the promise rejects with an error
Thrown(sent, name, message) ==
  [sent |-> sent, status |-> "error", errorName |-> name, message |-> message,
   response |-> NoResponse]

\* the promise resolves with a parsed response
Returned(sent, parsed) ==
  [sent |-> sent, status |-> "ok", errorName |-> "", message |-> "",
   response |-> parsed]

\* PROMPT_TEMPLATE(difficulty), SYSTEM_INSTRUCTION being fixed
PROMPT_TEMPLATE(difficulty) == [template |-> "PROMPT_TEMPLATE", difficulty |-> difficulty]

TextItem(text) == [type |-> "text", text |-> text]
ImageItem(url) == [type |-> "image_url", image_url |-> [url |-> url]]
InlineData(mimeType, data) ==
  [type |-> "inlineData", inlineData |-> [mimeType |-> mimeType, data |-> data]]

\* JSON.parse(text) as GeneratedQuizResponse, after the test for a payload
ParseResponse(request, text, emptyMessage) ==
  IF text = Null THEN Thrown(<< request >>, "Error", emptyMessage)
  ELSE IF JSONparse(text[1]).throws
       THEN Thrown(<< request >>, "SyntaxError", "Unexpected token")
       ELSE Returned(<< request >>, JSONparse(text[1]))

\* response.questions is an array the mapping step can walk
HasQuestions(response) ==
  response.type = "obj" /\ "questions" \in DOMAIN response.val

\* ------------------------------------------------------- generateWithGemini
\* a key choice that prefers the environment key
GeminiApiKeyEnvFirst(settings, envKey) ==
  Or(envKey, Field(Field(<< settings >>, "gemini"), "apiKey"))

\* settings?.gemini?.apiKey || process.env.API_KEY
GeminiApiKey(settings, envKey) ==
  Or(Field(Field(<< settings >>, "gemini"), "apiKey"), envKey)

generateWithGemini(base64Data, mimeType, difficulty, settings, world) ==
  LET apiKey == GeminiApiKey(settings, world.envKey)
      request == [api |-> "gemini",
                  url |-> << >>,
                  key |-> apiKey[1],
                  model |-> "gemini-2.5-flash",
                  content |-> << InlineData(mimeType, base64Data),
                                 TextItem(PROMPT_TEMPLATE(difficulty)) >>]
  IN IF ~Truthy(apiKey)
     THEN Thrown(<< >>, "Error",
                 "Missing Gemini API Key. Please provide one in settings or configure the environment.")
     ELSE IF world.reply.status # "ok"
          THEN Thrown(<< request >>, "ApiError", "generateContent rejected")
          ELSE ParseResponse(request, world.reply.text,
                             "No response generated from Gemini.")

\* ------------------------------------------------------- extractTextFromPdf
\* A text built by a template literal is the sequence of its pieces: literal
\* strings and interpolated numbers.
NoNum == 0 - 1
Lit(str) == [str |-> str, num |-> NoNum]
Num(num) == [str |-> "", num |-> num]

Whitespace == { "", " ", "\n\n" }

\* !fullText.trim()
TrimIsEmpty(fullText) ==
  \A i \in DOMAIN fullText : fullText[i].num = NoNum /\ fullText[i].str \in Whitespace

\* the for loop over the pages, each in its own try/catch
RECURSIVE ExtractPages(_, _, _)
ExtractPages(pages, i, fullText) ==
  IF i > Len(pages) THEN fullText
  ELSE ExtractPages(pages, i + 1,
         fullText \o
           IF pages[i].fails
           THEN << Lit("--- PAGE "), Num(i), Lit(" (Extraction Failed) ---\n\n") >>
           ELSE << Lit("--- PAGE "), Num(i), Lit(" ---\n"), Lit(pages[i].text),
                   Lit("\n\n") >>)

EmptyPdfMessage ==
  "PDF appears to be empty or contains only scanned images without text layer."

\* an extraction that a failing page aborts
extractTextFromPdfAbort(base64Data, pdfjs) ==
  IF atob(base64Data) # pdfjs.data \/ ~pdfjs.loads
  THEN [ok |-> FALSE, text |-> << >>, message |-> "Could not load PDF document."]
  ELSE IF \E i \in DOMAIN pdfjs.pages : pdfjs.pages[i].fails
       THEN [ok |-> FALSE, text |-> << >>, message |-> "Failed to extract text from PDF."]
       ELSE LET fullText == ExtractPages(pdfjs.pages, 1, << >>)
            IN IF TrimIsEmpty(fullText)
               THEN [ok |-> FALSE, text |-> << >>, message |-> EmptyPdfMessage]
               ELSE [ok |-> TRUE, text |-> fullText, message |-> ""]

\* pdf.js is handed the decoded bytes; the document it builds from them is
\* pdfjs.
extractTextFromPdf(base64Data, pdfjs) ==
  IF atob(base64Data) # pdfjs.data \/ ~pdfjs.loads
  THEN [ok |-> FALSE, text |-> << >>, message |-> "Could not load PDF document."]
  ELSE LET fullText == ExtractPages(pdfjs.pages, 1, << >>)
       IN IF TrimIsEmpty(fullText)
          THEN [ok |-> FALSE, text |-> << >>, message |-> EmptyPdfMessage]
          ELSE [ok |-> TRUE, text |-> fullText, message |-> ""]

\* ------------------------------------------------------- generateWithOpenAI
\* mimeType.startsWith('image/'), over the media types of the model
StartsWithImage(mimeType) == mimeType \in { "image/jpeg", "image/png", "image/webp" }

\* a user content that decodes everything but a PDF as text
userContentNoImage(base64Data, mimeType, promptText, extractedText) ==
  IF mimeType = "application/pdf"
  THEN << TextItem(extractedText), TextItem(promptText) >>
  ELSE << TextItem(atob(base64Data)), TextItem(promptText) >>

\* the branch on the media type that builds userContent
userContent(base64Data, mimeType, promptText, extractedText) ==
  IF mimeType = "application/pdf"
  THEN << TextItem(extractedText), TextItem(promptText) >>
  ELSE IF StartsWithImage(mimeType)
       THEN << ImageItem(<< "data:", mimeType, ";base64,", base64Data >>),
               TextItem(promptText) >>
       ELSE << TextItem(atob(base64Data)), TextItem(promptText) >>

\* the URL literal of the fetch call
OpenAIEndpoint == << "https://api.openai.com/v1", "/chat/completions" >>

\* `Bearer ${config?.apiKey}`
Bearer(apiKey) == << "Bearer ", IF apiKey = Null THEN "undefined" ELSE apiKey[1] >>

\* errorData.error?.message || 'OpenAI API request failed'
ErrorMessage(errorData) ==
  Or(Field(Field(<< errorData >>, "error"), "message"),
     << "OpenAI API request failed" >>)[1]

\* data.choices?.[0]?.message?.content
ChoiceContent(data) ==
  LET choices == Field(<< data >>, "choices")
  IN IF choices = Null \/ Len(choices[1]) = 0 THEN Null
     ELSE Field(Field(<< choices[1][1] >>, "message"), "content")

generateWithOpenAI(base64Data, mimeType, difficulty, config, world) ==
  LET promptText == PROMPT_TEMPLATE(difficulty)
      extracted == IF mimeType = "application/pdf"
                   THEN extractTextFromPdf(base64Data, world.pdfjs)
                   ELSE [ok |-> TRUE, text |-> << >>, message |-> ""]
      request == [api |-> "openai",
                  url |-> OpenAIEndpoint,
                  authorization |-> Bearer(Field(config, "apiKey")),
                  model |-> Or(Field(config, "model"), << "gpt-4o" >>)[1],
                  content |-> userContent(base64Data, mimeType, promptText,
                                          extracted.text)]
      reply == world.reply
  IN IF ~extracted.ok THEN Thrown(<< >>, "Error", extracted.message)
     ELSE IF reply.status = "network"
          THEN Thrown(<< request >>, "TypeError", "Failed to fetch")
     ELSE IF reply.status = "error"
          THEN IF JSONparse(reply.body).throws
               THEN Thrown(<< request >>, "SyntaxError", "Unexpected token")
               ELSE Thrown(<< request >>, "Error",
                           ErrorMessage(JSONparse(reply.body).val))
     ELSE ParseResponse(request, ChoiceContent(JSONparse(reply.body).val),
                        "No response generated from OpenAI.")

\* -------------------------------------------------- generateQuizFromContent
generateQuizFromContent(base64Data, mimeType, difficulty, settings, world) ==
  LET provider == Or(Field(<< settings >>, "provider"), << "gemini" >>)[1]
  IN IF provider = "gemini"
     THEN generateWithGemini(base64Data, mimeType, difficulty, settings, world)
     ELSE generateWithOpenAI(base64Data, mimeType, difficulty,
                             Field(<< settings >>, "openai"), world)

\* ------------------------------------ one generation, from the call onwards
\* handleGenerateQuiz has reached its await for a file just read.
InitGen ==
  /\ inflight \in { << [file |-> f, hist |-> << >>] >> : f \in AcceptedFiles }
  /\ svcInput \in InputsFor(inflight[1].file)
  /\ svcOutcome = Null
  /\ aiSettings \in ServiceSettings
  /\ storedSettings = Null
  /\ historyType = "arr"
  /\ phase = "loaded"
  /\ lastSaved = Null
  /\ storedHistoryKind = "absent"
  /\ storedHistory = << >>
  /\ history = << >>
  /\ appState = "PROCESSING"
  /\ isLoading = TRUE
  /\ questions = << >>
  /\ result = Null
  /\ activeTab = "create"
  /\ file = Null
  /\ error = Null
  /\ readers = << >>
  /\ currentIndex = 0
  /\ selectedAnswers = << >>
  /\ showExplanation = FALSE
  /\ crashed = FALSE
  /\ handlerThrew = FALSE
  /\ alerts = 0
  /\ now = HistoryCap + 1
  /\ submits = 1
  /\ deletes = 0
  /\ sessionN = 0
  /\ cycles = 0
  /\ completions = 0

\* generateQuizFromContent runs up to the settling of its promise
ServiceSettles ==
  /\ svcOutcome = Null
  /\ inflight # << >>
  /\ svcOutcome' = << generateQuizFromContent(svcInput.base64Data, svcInput.mimeType,
                                              svcInput.difficulty, aiSettings,
                                              svcInput) >>
  /\ UNCHANGED << appState, questions, result, isLoading, activeTab, history,
                  storedHistory, file, error, readers, inflight, currentIndex,
                  selectedAnswers, showExplanation, crashed, handlerThrew,
                  alerts, now, submits, deletes, sessionN, cycles, completions,
                  settingsVars, storedHistoryKind, svcInput >>

\* the await returns and response.questions is mapped
Resolve ==
  /\ svcOutcome # Null
  /\ svcOutcome[1].status = "ok"
  /\ HasQuestions(svcOutcome[1].response)
  /\ GenSucceed(1, svcOutcome[1].response.val.questions)

\* the await throws, or response.questions.map does
Reject ==
  /\ svcOutcome # Null
  /\ ~(svcOutcome[1].status = "ok" /\ HasQuestions(svcOutcome[1].response))
  /\ GenFail(1)

NextGen ==
  \/ ServiceSettles
  \/ Resolve
  \/ Reject

SpecGen == InitGen /\ [][NextGen]_vars

\* ================================================================== claims
\* The session the aux counters describe is mounted or has just completed.
SessionInView == appState \in { "QUIZ", "RESULTS" }

\* C1: a session over n questions (n = 0 and n = 1 included) that has been
\* driven through n select-then-advance cycles has completed exactly once and
\* handed over an answer list of length n; and handleNext never takes effect
\* while the current question has no recorded answer.
C1_CyclesReachCompletion ==
  /\ [](SessionInView /\ cycles = sessionN
          => /\ completions = 1
             /\ appState = "RESULTS"
             /\ result # Null
             /\ Len(result[1].userAnswers) = sessionN)
  /\ [][QuizMounted(appState) /\ cycles' = cycles + 1
          => /\ currentIndex < Len(selectedAnswers)
             /\ selectedAnswers[currentIndex + 1] # Unanswered]_vars

\* C2: answers are write-once.  While a session lasts no step changes an
\* entry that holds a recorded answer, a selection changes no entry other
\* than the current one, the list keeps its length, and the list handed to
\* onComplete is the recorded one.
C2_WriteOnce ==
  [][/\ QuizMounted(appState) /\ QuizMounted(appState')
          => /\ Len(selectedAnswers') = Len(selectedAnswers)
             /\ \A i \in DOMAIN selectedAnswers :
                  \/ selectedAnswers'[i] = selectedAnswers[i]
                  \/ /\ selectedAnswers[i] = Unanswered
                     /\ i = currentIndex + 1
     /\ QuizMounted(appState) /\ appState' = "RESULTS"
          => result'[1].userAnswers = selectedAnswers]_vars

\* C2 witness: a two-question session in which question 0 was answered, the
\* session advanced, and question 1 was answered as well.
C2_Witness ==
  /\ QuizMounted(appState)
  /\ ~crashed
  /\ currentIndex = 1
  /\ Len(selectedAnswers) = 2
  /\ selectedAnswers[1] # Unanswered
  /\ selectedAnswers[2] # Unanswered

\* C3: in every state of a session the position is a valid index of the
\* question sequence, it changes only by +1, and it leaves i only when
\* question i has a recorded answer.
C3_PositionValid ==
  /\ [](QuizMounted(appState) => 0 <= currentIndex /\ currentIndex < Len(questions))
  /\ [][QuizMounted(appState) /\ QuizMounted(appState') /\ currentIndex' # currentIndex
          => /\ currentIndex' = currentIndex + 1
             /\ currentIndex < Len(selectedAnswers)
             /\ selectedAnswers[currentIndex + 1] # Unanswered]_vars

WellFormed(q) == Len(q.options) = 4 /\ q.correctAnswerIndex \in 0..3

\* C5: a question without exactly 4 options or with a correct index outside
\* 0..3 never reaches the questions state, the quiz session or the history.
C5_MalformedNeverPasses ==
  /\ \A i \in DOMAIN questions : WellFormed(questions[i])
  /\ \A k \in DOMAIN history :
       \A i \in DOMAIN history[k].questions : WellFormed(history[k].questions[i])
  /\ \A k \in DOMAIN storedHistory :
       \A i \in DOMAIN storedHistory[k].questions :
         WellFormed(storedHistory[k].questions[i])

\* C6: whenever a result exists, the length of its answer list equals its
\* total, which is the length of its question list.
C6_AnswersMatchTotal ==
  result # Null
    => /\ Len(result[1].userAnswers) = result[1].total
       /\ result[1].total = Len(result[1].questions)

\* C7: at most one generation request is in flight; from the click on
\* Generate Quiz (the file read included) until the call has settled no
\* second call starts.
C7_SingleGeneration == Len(readers) + Len(inflight) <= 1

\* C8: while a generation call is suspended the app is in PROCESSING, and a
\* step that settles no call changes neither the application state, nor the
\* question list, nor the result.
C8_InertWhileSuspended ==
  /\ [](inflight # << >> /\ ~crashed => appState = "PROCESSING")
  /\ [][inflight # << >> /\ ~crashed /\ inflight' = inflight
          => /\ appState' = appState
             /\ questions' = questions
             /\ result' = result]_vars

C9_AllOrNothing ==
  [][/\ alerts' # alerts /\ ~crashed
          => /\ questions' = questions
             /\ result' = result
             /\ history' = history
             /\ storedHistory' = storedHistory
             /\ appState' = "UPLOAD"
             /\ isLoading' = FALSE
     /\ Len(inflight') < Len(inflight) /\ ~crashed /\ appState' = "QUIZ"
          => /\ \E resp \in Responses : questions' = MapQuestions(resp)
             /\ history' # << >>
             /\ history'[1].questions = questions']_vars

\* C9 witness: a generation has failed after an earlier one had succeeded;
\* the app is back in UPLOAD, not loading, with the earlier history entry.
C9_Witness ==
  /\ alerts >= 1
  /\ ~crashed
  /\ appState = "UPLOAD"
  /\ ~isLoading
  /\ inflight = << >>
  /\ history # << >>

NewestFirst(h) == \A i \in 1..(Len(h) - 1) : h[i].id > h[i + 1].id

\* C10: the history never holds more than 20 entries and is ordered newest
\* first; an insertion into a full list of 20 removes exactly its last entry
\* and keeps the other 19, in order, behind the new entry.
C10_BoundedNewestFirst ==
  /\ [](Len(history) <= HistoryCap /\ NewestFirst(history))
  /\ [][now' # now /\ ~crashed /\ Len(history) = HistoryCap
          => /\ Len(history') = HistoryCap
             /\ \A k \in DOMAIN history : history'[1].id > history[k].id
             /\ Tail(history') = SubSeq(history, 1, HistoryCap - 1)]_vars

\* C11: settings round trip.  Once a value s has been saved, a later startup
\* that loads the settings yields active settings equal to s, field by field.
C11_SettingsRoundTrip ==
  phase = "loaded" /\ lastSaved # Null => aiSettings = lastSaved[1]

\* C11 witness: settings that differ from the defaults were saved, the page
\* was loaded again and the mount effect has run.
C11_Witness ==
  /\ phase = "loaded"
  /\ lastSaved # Null
  /\ lastSaved[1].provider = "openai"
  /\ lastSaved[1].openai.baseUrl = "http://localhost:11434/v1"
  /\ lastSaved[1].gemini.apiKey = "AIza-user"

\* C12: after loading a stored settings object, every field of the full
\* shape is present, top-level and nested; a field the stored object has
\* keeps the stored value and a field it lacks has the default value.
C12_OldShapeFilled ==
  phase = "loaded" /\ lastSaved = Null /\ storedSettings # Null
    /\ storedSettings[1].kind = "obj"
    => LET stored == JSONvalue(storedSettings[1])
       IN /\ DOMAIN aiSettings = { "provider", "gemini", "openai" }
          /\ aiSettings.provider = IF "provider" \in DOMAIN stored
                                   THEN stored.provider
                                   ELSE DEFAULT_SETTINGS.provider
          /\ \A g \in { "gemini", "openai" } :
               /\ DOMAIN aiSettings[g] = DOMAIN DEFAULT_SETTINGS[g]
               /\ \A key \in DOMAIN DEFAULT_SETTINGS[g] :
                    aiSettings[g][key] =
                      IF g \in DOMAIN stored /\ key \in DOMAIN stored[g]
                      THEN stored[g][key]
                      ELSE DEFAULT_SETTINGS[g][key]

\* C13: after a startup over a stored settings text that is not JSON or not
\* an object the settings are DEFAULT_SETTINGS, after a startup over a stored
\* history text that is not JSON or not an array the history is the empty
\* list, and no render fails.
C13_BadDataGivesDefaults ==
  phase = "loaded" /\ lastSaved = Null
    => /\ storedSettings # Null /\ storedSettings[1].kind # "obj"
            => aiSettings = DEFAULT_SETTINGS
       /\ storedHistoryKind \in { "garbage", "null", "obj" }
            => /\ historyType = "arr"
               /\ history = << >>
               /\ ~crashed

\* The generic-compatible provider is active and the call has settled.
OpenAISettled == svcOutcome # Null /\ aiSettings.provider = "openai"

\* C14: for a loaded PDF of N >= 1 pages the extracted text has exactly one
\* marker per page, in the order 1..N: the failure marker for a page whose
\* extraction failed, else the page marker followed by the page's text; and
\* the request to the provider carries that text.
C14_PageFailureTolerated ==
  OpenAISettled /\ svcInput.mimeType = "application/pdf" /\ svcInput.pdfjs.loads
    /\ Len(svcInput.pdfjs.pages) >= 1
    => /\ svcOutcome[1].sent # << >>
       /\ LET pages == svcInput.pdfjs.pages
              item == svcOutcome[1].sent[1].content[1]
              numbers == SelectSeq(item.text, LAMBDA piece : piece.num # NoNum)
          IN /\ item.type = "text"
             /\ Len(numbers) = Len(pages)
             /\ \A i \in DOMAIN numbers : numbers[i].num = i
             /\ \A p \in DOMAIN item.text :
                  item.text[p].num # NoNum
                    => /\ p > 1
                       /\ item.text[p - 1] = Lit("--- PAGE ")
                       /\ IF pages[item.text[p].num].fails
                          THEN item.text[p + 1] = Lit(" (Extraction Failed) ---\n\n")
                          ELSE /\ item.text[p + 1] = Lit(" ---\n")
                               /\ item.text[p + 2] = Lit(pages[item.text[p].num].text)

\* C14 witness: two pages, the second failing; the request went out with
\* page 1's text and the page 2 failure marker.
C14_Witness ==
  /\ OpenAISettled
  /\ svcInput.mimeType = "application/pdf"
  /\ svcInput.pdfjs.loads
  /\ svcInput.pdfjs.pages = << [fails |-> FALSE, text |-> "Alpha"],
                               [fails |-> TRUE, text |-> ""] >>
  /\ svcOutcome[1].sent # << >>

\* C15: when no page of a loaded PDF yielded non-whitespace text (every page
\* failed or has blank text), the call fails with the empty-document error
\* and no request is sent.
C15_EmptyDocumentRejected ==
  OpenAISettled /\ svcInput.mimeType = "application/pdf" /\ svcInput.pdfjs.loads
    /\ (\A i \in DOMAIN svcInput.pdfjs.pages :
          \/ svcInput.pdfjs.pages[i].fails
          \/ svcInput.pdfjs.pages[i].text \in { "", " " })
    => /\ svcOutcome[1].status = "error"
       /\ svcOutcome[1].message = EmptyPdfMessage
       /\ svcOutcome[1].sent = << >>

\* C16: on a non-success HTTP status the caller gets an error raised for the
\* HTTP failure that carries the upstream message as sent: the message field
\* of a JSON body, the body itself when it is not JSON; no response is
\* returned.
C16_HttpErrorVerbatim ==
  OpenAISettled /\ svcOutcome[1].sent # << >> /\ svcInput.reply.status = "error"
    => /\ svcOutcome[1].status = "error"
       /\ svcOutcome[1].errorName = "Error"
       /\ svcInput.reply.body = ErrorBodyWithMessage
            => svcOutcome[1].message = "Invalid API key"
       /\ svcInput.reply.body = ErrorBodyNotJson
            => svcOutcome[1].message = "Bad Gateway"

\* C17: the request of the generic-compatible adapter goes to the base URL of
\* the active settings followed by /chat/completions, with the configured
\* key as bearer credential and the configured model.
C17_EndpointFromSettings ==
  OpenAISettled /\ svcOutcome[1].sent # << >>
    /\ DOMAIN aiSettings.openai = { "baseUrl", "apiKey", "model" }
    => /\ svcOutcome[1].sent[1].url = << aiSettings.openai.baseUrl, "/chat/completions" >>
       /\ svcOutcome[1].sent[1].authorization = << "Bearer ", aiSettings.openai.apiKey >>
       /\ svcOutcome[1].sent[1].model = aiSettings.openai.model

\* C18: the user message of the generic-compatible adapter has two items, the
\* content item and the prompt text.  The content item is the extracted text
\* for a PDF, one image_url item with the data URI of the media type and the
\* base64 data for an image, and the decoded file content for plain text;
\* for an image or plain text the request is always sent.
C18_ContentByMediaType ==
  OpenAISettled
    => /\ svcInput.mimeType # "application/pdf" => svcOutcome[1].sent # << >>
       /\ svcOutcome[1].sent # << >>
            => LET content == svcOutcome[1].sent[1].content
                   mimeType == svcInput.mimeType
               IN /\ Len(content) = 2
                  /\ content[2] = [type |-> "text",
                                   text |-> PROMPT_TEMPLATE(svcInput.difficulty)]
                  /\ mimeType = "application/pdf"
                       => /\ content[1].type = "text"
                          /\ DOMAIN content[1] = { "type", "text" }
                          /\ \A i \in DOMAIN svcInput.pdfjs.pages :
                               ~svcInput.pdfjs.pages[i].fails
                                 => \E p \in DOMAIN content[1].text :
                                      content[1].text[p] = Lit(svcInput.pdfjs.pages[i].text)
                  /\ mimeType \in { "image/jpeg", "image/png", "image/webp" }
                       => content[1] =
                            [type |-> "image_url",
                             image_url |-> [url |-> << "data:", mimeType, ";base64,",
                                                       svcInput.base64Data >>]]
                  /\ mimeType = "text/plain"
                       => content[1] = [type |-> "text", text |-> svcInput.fileBytes]

\* C18 witness: a PNG went out as an image_url item.
C18_Witness ==
  /\ OpenAISettled
  /\ svcInput.mimeType = "image/png"
  /\ svcOutcome[1].sent # << >>
  /\ svcOutcome[1].sent[1].content[1].type = "image_url"

MissingKeyMessage ==
  "Missing Gemini API Key. Please provide one in settings or configure the environment."

\* C19: with the primary provider the call fails with the missing-credential
\* error exactly when the user key is empty and no environment key is
\* available, and then sends nothing; otherwise a request is sent, with the
\* user key when that is non-empty and the environment key when it is not.
C19_MissingCredential ==
  svcOutcome # Null /\ aiSettings.provider = "gemini"
    => LET userKey == aiSettings.gemini.apiKey
           envKey == svcInput.envKey
           noKey == userKey = "" /\ (envKey = Null \/ envKey[1] = "")
           out == svcOutcome[1]
       IN /\ (out.status = "error" /\ out.message = MissingKeyMessage) <=> noKey
          /\ noKey => out.sent = << >>
          /\ ~noKey => /\ Len(out.sent) = 1
                       /\ out.sent[1].key = IF userKey # "" THEN userKey ELSE envKey[1]

\* C19 witness: no key at all, the call failed before any request; and the
\* failure reached the catch block of handleGenerateQuiz.
C19_Witness ==
  /\ svcOutcome # Null
  /\ aiSettings.provider = "gemini"
  /\ aiSettings.gemini.apiKey = ""
  /\ svcInput.envKey = Null
  /\ svcOutcome[1].sent = << >>
  /\ alerts = 1

\* C20: once a response of n records has been mapped, the question list has
\* length n and its k-th question (k = 0..n-1) has id k and the text, options,
\* correct index and explanation of the k-th record.
C20_MappingKeepsOrder ==
  svcOutcome # Null /\ appState = "QUIZ"
    => LET records == svcOutcome[1].response.val.questions
       IN /\ Len(questions) = Len(records)
          /\ \A k \in 0..(Len(records) - 1) :
               /\ questions[k + 1].id = k
               /\ questions[k + 1].text = records[k + 1].questionText
               /\ questions[k + 1].options = records[k + 1].options
               /\ questions[k + 1].correctAnswerIndex = records[k + 1].correctAnswerIndex
               /\ questions[k + 1].explanation = records[k + 1].explanation

\* C20 witness: a response of three records, the first two equal, was mapped
\* to three questions.
C20_Witness ==
  /\ svcOutcome # Null
  /\ appState = "QUIZ"
  /\ Len(questions) = 3
  /\ questions[1].text = questions[2].text
  /\ questions[3].text = "q0"

\* A step of handleLoadFromHistory: the app goes from UPLOAD to QUIZ and no
\* generation settles.
LoadStep == appState = "UPLOAD" /\ appState' = "QUIZ" /\ inflight' = inflight

\* C21: a retake starts a fresh session.  After handleLoadFromHistory the
\* question list is that of one history entry, the position is 0, the answer
\* list has one unanswered entry per question and no explanation is shown;
\* and no history entry, in memory or persisted, holds user answers.
C21_RetakeIsFresh ==
  /\ [][LoadStep
          => /\ \E k \in DOMAIN history : questions' = history[k].questions
             /\ currentIndex' = 0
             /\ Len(selectedAnswers') = Len(questions')
             /\ \A i \in DOMAIN selectedAnswers' : selectedAnswers'[i] = Unanswered
             /\ showExplanation' = FALSE]_vars
  /\ [](\A k \in DOMAIN history :
          /\ "userAnswers" \notin DOMAIN history[k]
          /\ \A i \in DOMAIN history[k].questions :
               DOMAIN history[k].questions[i] =
                 { "id", "text", "options", "correctAnswerIndex", "explanation" })
  /\ [](\A k \in DOMAIN storedHistory : "userAnswers" \notin DOMAIN storedHistory[k])

\* C21 witness: two sessions were generated, and a retake of the older
\* history entry is at its first question with nothing answered.
C21_Witness ==
  /\ QuizMounted(appState)
  /\ ~crashed
  /\ inflight = << >>
  /\ Len(history) = 2
  /\ questions = history[2].questions
  /\ questions # history[1].questions
  /\ Len(questions) = 2
  /\ currentIndex = 0
  /\ selectedAnswers = << Unanswered, Unanswered >>
  /\ ~showExplanation

\* a file within the limits of the upload form
Accepted(f) ==
  /\ f.size <= 5 * 1024 * 1024
  /\ f.type \in { "application/pdf", "text/plain", "image/jpeg", "image/png",
                  "image/webp" }

\* C22: every file handed to onGenerate (being read, or in a generation), and
\* the selected file, is at most 5 MiB and of an accepted media type; a
\* selection that raises a validation error leaves the selected file as it
\* was.
C22_OnlyValidFilesReachCore ==
  /\ [](/\ file # Null => Accepted(file[1])
        /\ \A i \in DOMAIN readers : Accepted(readers[i].file)
        /\ \A i \in DOMAIN inflight : Accepted(inflight[i].file))
  /\ [][error' # error /\ error' # Null /\ error' # << "Failed to read file." >>
          => file' = file]_vars

\* C22 witness: a valid file was selected, then an invalid one (the error is
\* shown), then Generate was clicked: the file being read is the valid one.
C22_Witness ==
  /\ file = << PdfFile >>
  /\ error = << "Unsupported file type. Please upload PDF, TXT, or Image." >>
  /\ Len(readers) = 1
  /\ readers[1].file = PdfFile

\* C23: a step that saves to the history or deletes from it leaves the
\* persisted history equal to the in-memory history; a generation that
\* succeeds adds exactly one entry at the head of the history, holding the
\* question list given to the session, and keeps the entries there were (but
\* for the one evicted past 20).
C23_PersistedEqualsMemory ==
  [][(now' # now \/ deletes' # deletes) /\ ~crashed
          => /\ storedHistory' = history'
             /\ now' # now
                  => /\ history' # << >>
                     /\ history'[1].questions = questions'
                     /\ Tail(history') = Slice(history, HistoryCap - 1)]_vars

\* the ids of the entries of a history list
Ids(h) == { h[k].id : k \in DOMAIN h }

\* C24: an entry that is not in the history before a step and is in it after
\* the step is the entry that step created (so a deleted entry never comes
\* back), in memory and persisted; and an entry leaves the history only in a
\* deletion step or as the 20th entry of a full list in an insertion step.
C24_DeletedStaysDeleted ==
  [][~crashed
          => /\ Ids(history') \ Ids(history) \subseteq { now }
             /\ Ids(storedHistory') \ Ids(storedHistory) \subseteq { now }
             /\ \A k \in DOMAIN history :
                  history[k].id \notin Ids(history')
                    => \/ deletes' # deletes
                       \/ now' # now /\ k = HistoryCap]_vars

\* the current question has a recorded answer
CurrentRecorded ==
  /\ currentIndex < Len(selectedAnswers)
  /\ selectedAnswers[currentIndex + 1] # Unanswered

\* C25: in every state of a quiz session the explanation is shown exactly
\* when the current question has a recorded answer, and a step that advances
\* to the next question hides it.
C25_RevealMatchesAnswer ==
  /\ [](QuizMounted(appState) /\ ~crashed => (showExplanation <=> CurrentRecorded))
  /\ [][QuizMounted(appState) /\ QuizMounted(appState') /\ currentIndex' # currentIndex
          => showExplanation' = FALSE]_vars

\* C25 witness: the first question was answered and the session advanced;
\* the second question is unanswered and its explanation hidden.
C25_Witness ==
  /\ QuizMounted(appState)
  /\ ~crashed
  /\ currentIndex = 1
  /\ Len(selectedAnswers) = 2
  /\ selectedAnswers[1] # Unanswered
  /\ selectedAnswers[2] = Unanswered
  /\ ~showExplanation

====
